---- MODULE Spec2Model ----
(***************************************************************************)
(* A model of hello_HTTP_SIM.c: the AT-command transport send_at, the      *)
(* length parser parse_http_length and the linear command sequence         *)
(* sim_http_get_sample that drives a SIM7600 modem over UART2.             *)
(*                                                                         *)
(* Characters are one-character strings, C strings are sequences of        *)
(* characters ended by NUL, and a pointer into a buffer is a 1-based index *)
(* (0 is the null pointer).                                                *)
(***************************************************************************)
EXTENDS Integers, Sequences, FiniteSets, TLC

VARIABLES
  pc,        \* position in sim_http_get_sample: the line of the next statement
  at,        \* position inside send_at: "idle" when no call is active
  cmd,       \* send_at's argument cmd
  buf_size,  \* send_at's argument buf_size
  resp,      \* the memory of the response buffer, buf_size characters
  len,       \* sim_http_get_sample's local len (line 101)
  ret,       \* the value the last send_at call returned
  rd_len,    \* send_at's local len (line 57), the result of uart_read_bytes
  rx,        \* the UART driver's receive buffer: bytes received and not read
  tx,        \* every uart_write_bytes call made so far, in order
  ops,       \* history: the channel operations of the current send_at call
  stale,     \* history: the bytes pending in rx when the current call started
  arrived,   \* history: the bytes the modem sent since the current call's flush
  sent,      \* history: the number of chunks the modem sent so far
  oob,       \* history: the indices at or past buf_size that were written
  calls      \* history: the commands passed to send_at so far, in order

vars ==
  <<pc, at, cmd, buf_size, resp, len, ret, rd_len, rx, tx, ops, stale, arrived,
    sent, oob, calls>>

----------------------------------------------------------------------------
(* Characters and string literals of the source.                           *)

\* The byte '\0'.
NUL ==
  "NUL"

\* +HTTPACTION:  (12 characters)
MARKER ==
  <<"+","H","T","T","P","A","C","T","I","O","N",":">>
\* \r\n  (2 characters)
CRLF ==
  <<"\r","\n">>
\* AT+CGATT?  (9 characters)
CMD_CGATT ==
  <<"A","T","+","C","G","A","T","T","?">>
\* AT+CGDCONT=1,"IP","everywhere"  (30 characters)
CMD_CGDCONT ==
  <<"A","T","+","C","G","D","C","O","N","T","=","1",",","\"","I","P","\"",",","\"","e","v","e","r","y","w","h","e","r","e","\"">>
\* AT+CGAUTH=1,1,"eesecure","secure"  (33 characters)
CMD_CGAUTH ==
  <<"A","T","+","C","G","A","U","T","H","=","1",",","1",",","\"","e","e","s","e","c","u","r","e","\"",",","\"","s","e","c","u","r","e","\"">>
\* AT+CGACT=1,1  (12 characters)
CMD_CGACT ==
  <<"A","T","+","C","G","A","C","T","=","1",",","1">>
\* AT+CGPADDR=1  (12 characters)
CMD_CGPADDR ==
  <<"A","T","+","C","G","P","A","D","D","R","=","1">>
\* AT+HTTPTERM  (11 characters)
CMD_HTTPTERM ==
  <<"A","T","+","H","T","T","P","T","E","R","M">>
\* AT+HTTPINIT  (11 characters)
CMD_HTTPINIT ==
  <<"A","T","+","H","T","T","P","I","N","I","T">>
\* AT+HTTPSSL=1  (12 characters)
CMD_HTTPSSL1 ==
  <<"A","T","+","H","T","T","P","S","S","L","=","1">>
\* AT+HTTPPARA="URL","https://alusys.io/test/sample.bin"  (53 characters)
CMD_HTTPPARA_URL ==
  <<"A","T","+","H","T","T","P","P","A","R","A","=","\"","U","R","L","\"",",","\"","h","t","t","p","s",":","/","/","a","l","u","s","y","s",".","i","o","/","t","e","s","t","/","s","a","m","p","l","e",".","b","i","n","\"">>
\* AT+HTTPPARA="READMODE",1  (24 characters)
CMD_HTTPPARA_READMODE ==
  <<"A","T","+","H","T","T","P","P","A","R","A","=","\"","R","E","A","D","M","O","D","E","\"",",","1">>
\* AT+HTTPACTION=0  (15 characters)
CMD_HTTPACTION ==
  <<"A","T","+","H","T","T","P","A","C","T","I","O","N","=","0">>
\* AT+HTTPREAD=0,  (14 characters)
FMT_HTTPREAD ==
  <<"A","T","+","H","T","T","P","R","E","A","D","=","0",",">>
\* AT+HTTPSSL=0  (12 characters)
CMD_HTTPSSL0 ==
  <<"A","T","+","H","T","T","P","S","S","L","=","0">>
\* OK  (2 characters)
R_OK ==
  <<"O","K">>
\* ERROR  (5 characters)
R_ERROR ==
  <<"E","R","R","O","R">>
\* +HTTPACTION: 0,200,4096  (23 characters)
R_ACTION_4096 ==
  <<"+","H","T","T","P","A","C","T","I","O","N",":"," ","0",",","2","0","0",",","4","0","9","6">>
\* +HTTPACTION: 0,404,0  (20 characters)
R_ACTION_404 ==
  <<"+","H","T","T","P","A","C","T","I","O","N",":"," ","0",",","4","0","4",",","0">>
\* +HTTPACTION: 0,200,2147483647  (29 characters)
R_ACTION_MAX ==
  <<"+","H","T","T","P","A","C","T","I","O","N",":"," ","0",",","2","0","0",",","2","1","4","7","4","8","3","6","4","7">>
\* +HTTPACTION: 0,200,-5  (21 characters)
R_ACTION_NEG ==
  <<"+","H","T","T","P","A","C","T","I","O","N",":"," ","0",",","2","0","0",",","-","5">>
\* +HTTPACTION: 0,200  (18 characters)
R_ACTION_SHORT ==
  <<"+","H","T","T","P","A","C","T","I","O","N",":"," ","0",",","2","0","0">>
\* \r\nOK\r\n\r\n+HTTPACTION: 0,200,4096\r\n  (33 characters)
R_LONG ==
  <<"\r","\n","O","K","\r","\n","\r","\n","+","H","T","T","P","A","C","T","I","O","N",":"," ","0",",","2","0","0",",","4","0","9","6","\r","\n">>

----------------------------------------------------------------------------
(* The C library functions the source calls, on buffers and indices.       *)

\* int is 32 bits wide: INT_MAX = 2^31 - 1.
INT_MAX ==
  (2^30 - 1) + 2^30

INT_MIN ==
  (-INT_MAX) - 1

Min(S) ==
  CHOOSE x \in S : \A y \in S : x <= y

\* The index of the first NUL at or after p: where the C string at p ends.
\* Every buffer the model hands to a string function holds a NUL; the end of
\* the buffer stands for it otherwise.
RECURSIVE NulIndex(_, _)
NulIndex(s, p) ==
  IF p > Len(s) \/ s[p] = NUL THEN p ELSE NulIndex(s, p + 1)

\* The C string stored at the start of buffer s, without its NUL.
CString(s) ==
  SubSeq(s, 1, NulIndex(s, 1) - 1)

\* The characters of needle from its k-th on are found in s from index i on.
RECURSIVE MatchesAt(_, _, _, _)
MatchesAt(s, i, needle, k) ==
  \/ k > Len(needle)
  \/ /\ i <= Len(s)
     /\ s[i] = needle[k]
     /\ MatchesAt(s, i + 1, needle, k + 1)

\* The first occurrence of needle in the C string at i, or NULL.
RECURSIVE FindFrom(_, _, _)
FindFrom(s, i, needle) ==
  IF MatchesAt(s, i, needle, 1) THEN i
  ELSE IF i > Len(s) \/ s[i] = NUL THEN 0
  ELSE FindFrom(s, i + 1, needle)

\* strstr(s, needle): a pointer to the first occurrence of needle, or NULL.
\* (No needle of the source holds a NUL.)
strstr(s, needle) ==
  FindFrom(s, 1, needle)

\* strchr(s + p - 1, c) for c # '\0': a pointer to the first c at or after
\* p, or NULL.
RECURSIVE strchr(_, _, _)
strchr(s, p, c) ==
  IF p > Len(s) \/ s[p] = NUL THEN 0
  ELSE IF s[p] = c THEN p
  ELSE strchr(s, p + 1, c)

isspace(c) ==
  c \in {" ", "\t", "\n", "\r", "\f"}

isdigit(c) ==
  c \in {"0", "1", "2", "3", "4", "5", "6", "7", "8", "9"}

DigitVal(c) ==
  CASE c = "0" -> 0 [] c = "1" -> 1 [] c = "2" -> 2 [] c = "3" -> 3
    [] c = "4" -> 4 [] c = "5" -> 5 [] c = "6" -> 6 [] c = "7" -> 7
    [] c = "8" -> 8 [] c = "9" -> 9

RECURSIVE SkipSpace(_, _)
SkipSpace(s, p) ==
  IF isspace(s[p]) THEN SkipSpace(s, p + 1) ELSE p

\* The digits at p, accumulated with sign sgn; overflow when the value leaves
\* the range of int.
RECURSIVE AccumulateDigits(_, _, _, _)
AccumulateDigits(s, p, sgn, acc) ==
  IF ~isdigit(s[p])
  THEN [overflow |-> FALSE, value |-> acc]
  ELSE LET d == DigitVal(s[p]) IN
       IF sgn = 1 /\ acc > (INT_MAX - d) \div 10
       THEN [overflow |-> TRUE, value |-> INT_MAX]
       ELSE IF sgn = -1 /\ acc < (INT_MIN + d + 9) \div 10
       THEN [overflow |-> TRUE, value |-> INT_MIN]
       ELSE AccumulateDigits(s, p + 1, sgn, acc * 10 + sgn * d)

\* What atoi may return when the value is not representable: the behaviour is
\* undefined (newlib's strtol clamps; other results are possible).
AtoiUndefined ==
  {INT_MIN, -1, 0, 1, INT_MAX}

\* atoi(s + p - 1): the set of values the call can return. Leading white
\* space is skipped, one sign is accepted, the digits that follow are
\* converted and conversion stops at the first other character.
atoi(s, p) ==
  LET q   == SkipSpace(s, p)
      sgn == IF s[q] = "-" THEN -1 ELSE 1
      r   == IF s[q] \in {"-", "+"} THEN q + 1 ELSE q
      v   == AccumulateDigits(s, r, sgn, 0)
  IN  IF v.overflow THEN AtoiUndefined ELSE {v.value}

----------------------------------------------------------------------------
(* parse_http_length (lines 68-78): the set of values it can return.       *)

\* parse_http_length reading the number after the first comma.
parse_http_length_one_comma(s) ==
  LET p1 == strstr(s, MARKER) IN
  IF p1 = 0 THEN {0}
  ELSE LET p2 == strchr(s, p1, ",") IN
       IF p2 = 0 THEN {0}
       ELSE atoi(s, p2 + 1)

\* parse_http_length without the check of strstr's result: the commas are
\* then looked for from the start of the string.
parse_http_length_unchecked(s) ==
  LET p1 == strstr(s, MARKER)
      p0 == IF p1 = 0 THEN 1 ELSE p1
      p2 == strchr(s, p0, ",") IN
  IF p2 = 0 THEN {0}
  ELSE LET p3 == strchr(s, p2 + 1, ",") IN
       IF p3 = 0 THEN {0}
       ELSE atoi(s, p3 + 1)

parse_http_length(s) ==
  LET p1 == strstr(s, MARKER) IN
  IF p1 = 0 THEN {0}
  ELSE LET p2 == strchr(s, p1, ",") IN
       IF p2 = 0 THEN {0}
       ELSE LET p3 == strchr(s, p2 + 1, ",") IN
            IF p3 = 0 THEN {0}
            ELSE atoi(s, p3 + 1)

----------------------------------------------------------------------------
(* The UART channel and send_at (lines 47-65).                             *)

\* sizeof(resp): UART_BUF_SIZE is 1024 in the source (line 44); the model
\* runs the same code with a smaller buffer.
UART_BUF_SIZE ==
  32

\* The driver's receive ring buffer (uart_driver_install, line 137).
RxRingSize ==
  UART_BUF_SIZE * 2

\* The most chunks the modem sends during a run.
MaxChunks ==
  2

\* A flush that leaves the pending input in place.
uart_flush_keep(pending) ==
  pending

\* uart_flush (line 50): the pending input is discarded.
uart_flush(pending) ==
  <<>>

\* A read of as many bytes as the buffer holds.
ReadLength_full(size) ==
  size

\* The length asked of uart_read_bytes (line 57).
ReadLength(size) ==
  size - 1

\* uart_read_bytes when it does not fail: the number of bytes it hands over,
\* the pending ones up to the length asked for.
uart_read_count(pending, length) ==
  IF Len(pending) < length THEN Len(pending) ELSE length

\* buf with bytes stored from index off (0-based); a store at or past the
\* end of buf does not change buf and is reported by OutOfBounds.
Store(buf, off, bytes) ==
  [i \in 1..Len(buf) |->
     IF i > off /\ i <= off + Len(bytes) THEN bytes[i - off] ELSE buf[i]]

OutOfBounds(buf, off, bytes) ==
  {i \in off..(off + Len(bytes) - 1) : i >= Len(buf)}

\* A send_at that also fails when nothing was received.
SendAtResult_empty_fails(n) ==
  IF n <= 0 THEN "ESP_FAIL" ELSE "ESP_OK"

\* send_at's result for the value uart_read_bytes returned (lines 58-64).
SendAtResult(n) ==
  IF n < 0 THEN "ESP_FAIL" ELSE "ESP_OK"

\* The statement that follows the send_at call of line l in
\* sim_http_get_sample.
NextLine(l) ==
  CASE l = "L86"  -> "L87"
    [] l = "L87"  -> "L88"
    [] l = "L88"  -> "L89"
    [] l = "L89"  -> "L90"
    [] l = "L90"  -> "L93"
    [] l = "L93"  -> "L94"
    [] l = "L94"  -> "L95"
    [] l = "L95"  -> "L96"
    [] l = "L96"  -> "L97"
    [] l = "L97"  -> "L100"
    [] l = "L100" -> "L101"
    [] l = "L104" -> "L109"
    [] l = "L109" -> "L110"
    [] l = "L110" -> "done"
    [] OTHER      -> l

\* A caller that sends the command again when send_at failed.
ReturnTo_retry(l, r) ==
  IF r = "ESP_FAIL" THEN l ELSE NextLine(l)

\* A caller that returns at once when send_at failed.
ReturnTo_abort(l, r) ==
  IF r = "ESP_FAIL" /\ l # "harness" THEN "done" ELSE NextLine(l)

\* Where the caller continues when the send_at call made at line l returns
\* r: at the next statement, the result is not looked at.
ReturnTo(l, r) ==
  NextLine(l)

\* The modem sends a chunk of bytes, at any time; the driver queues it when
\* the ring buffer has room for it.
ModemSends(chunks) ==
  /\ sent < MaxChunks
  /\ \E chunk \in chunks :
       /\ Len(rx) + Len(chunk) <= RxRingSize
       /\ rx' = rx \o chunk
       /\ arrived' = arrived \o chunk
  /\ sent' = sent + 1
  /\ UNCHANGED <<pc, at, cmd, buf_size, resp, len, ret, rd_len, tx, ops,
                 stale, oob, calls>>

\* A caller enters send_at(c, resp, size, timeout).
Enter(c, size) ==
  /\ at = "idle"
  /\ at' = "flush"
  /\ cmd' = c
  /\ buf_size' = size
  /\ ops' = <<>>
  /\ stale' = rx
  /\ calls' = Append(calls, c)

\* Line 50: uart_flush.
SendAt_Flush ==
  /\ at = "flush"
  /\ rx' = uart_flush(rx)
  /\ arrived' = <<>>
  /\ ops' = Append(ops, "flush")
  /\ at' = "write_cmd"
  /\ UNCHANGED <<pc, cmd, buf_size, resp, len, ret, rd_len, tx, stale, sent,
                 oob, calls>>

\* Line 53: uart_write_bytes(cmd, strlen(cmd)).
SendAt_WriteCmd ==
  /\ at = "write_cmd"
  /\ tx' = Append(tx, cmd)
  /\ ops' = Append(ops, "write_cmd")
  /\ at' = "write_crlf"
  /\ UNCHANGED <<pc, cmd, buf_size, resp, len, ret, rd_len, rx, stale,
                 arrived, sent, oob, calls>>

\* Line 54: uart_write_bytes("\r\n", 2).
SendAt_WriteCrlf ==
  /\ at = "write_crlf"
  /\ tx' = Append(tx, CRLF)
  /\ ops' = Append(ops, "write_crlf")
  /\ at' = "read"
  /\ UNCHANGED <<pc, cmd, buf_size, resp, len, ret, rd_len, rx, stale,
                 arrived, sent, oob, calls>>

\* Lines 57-61: uart_read_bytes fails; the buffer is left as it was.
SendAt_ReadFails ==
  /\ at = "read"
  /\ rd_len' = -1
  /\ ret' = SendAtResult(rd_len')
  /\ ops' = Append(ops, "read")
  /\ at' = "idle"
  /\ pc' = ReturnTo(pc, ret')
  /\ UNCHANGED <<cmd, buf_size, resp, len, rx, tx, stale, arrived, sent, oob,
                 calls>>

\* Lines 57-64: uart_read_bytes returns, with the bytes that arrived before
\* the timeout (possibly none) or with as many as were asked for; resp_buf
\* is ended by '\0'.
SendAt_Read ==
  /\ at = "read"
  /\ LET n    == uart_read_count(rx, ReadLength(buf_size))
         data == SubSeq(rx, 1, n)
     IN  /\ rd_len' = n
         /\ rx' = SubSeq(rx, n + 1, Len(rx))
         /\ ret' = SendAtResult(n)
         /\ IF SendAtResult(n) = "ESP_FAIL"
            THEN /\ resp' = Store(resp, 0, data)
                 /\ oob' = oob \cup OutOfBounds(resp, 0, data)
            ELSE /\ resp' = Store(Store(resp, 0, data), n, <<NUL>>)
                 /\ oob' = oob \cup OutOfBounds(resp, 0, data)
                               \cup OutOfBounds(resp, n, <<NUL>>)
  /\ ops' = Append(ops, "read")
  /\ at' = "idle"
  /\ pc' = ReturnTo(pc, ret')
  /\ UNCHANGED <<cmd, buf_size, len, tx, stale, arrived, sent, calls>>

send_at ==
  \/ SendAt_Flush
  \/ SendAt_WriteCmd
  \/ SendAt_WriteCrlf
  \/ SendAt_ReadFails
  \/ SendAt_Read

----------------------------------------------------------------------------
(* sim_http_get_sample (lines 81-111).                                     *)

\* The command each fixed call site passes to send_at.
CommandAt(l) ==
  CASE l = "L86"  -> CMD_CGATT
    [] l = "L87"  -> CMD_CGDCONT
    [] l = "L88"  -> CMD_CGAUTH
    [] l = "L89"  -> CMD_CGACT
    [] l = "L90"  -> CMD_CGPADDR
    [] l = "L93"  -> CMD_HTTPTERM
    [] l = "L94"  -> CMD_HTTPINIT
    [] l = "L95"  -> CMD_HTTPSSL1
    [] l = "L96"  -> CMD_HTTPPARA_URL
    [] l = "L97"  -> CMD_HTTPPARA_READMODE
    [] l = "L100" -> CMD_HTTPACTION
    [] l = "L109" -> CMD_HTTPTERM
    [] l = "L110" -> CMD_HTTPSSL0

FixedSites ==
  {"L86", "L87", "L88", "L89", "L90", "L93", "L94", "L95", "L96", "L97",
   "L100", "L109", "L110"}

\* A send_at call with a literal command: lines 86-100, 109 and 110.
Call ==
  /\ pc \in FixedSites
  /\ Enter(CommandAt(pc), UART_BUF_SIZE)
  /\ UNCHANGED <<pc, resp, len, ret, rd_len, rx, tx, arrived, sent, oob>>

\* A test for any length other than zero.
ShouldRead_nonzero(v) ==
  v # 0

\* The test of line 102.
ShouldRead(v) ==
  v > 0

\* Lines 101-102: parse the length and branch on it.
Lines101_102 ==
  /\ pc = "L101"
  /\ at = "idle"
  /\ len' \in parse_http_length(resp)
  /\ pc' = IF ShouldRead(len') THEN "L104" ELSE "L109"
  /\ UNCHANGED <<at, cmd, buf_size, resp, ret, rd_len, rx, tx, ops, stale,
                 arrived, sent, oob, calls>>

\* A command buffer of half the size.
CmdSize_small ==
  2 * 8

\* sizeof(cmd), line 103.
CmdSize ==
  32

DigitChar(d) ==
  CASE d = 0 -> "0" [] d = 1 -> "1" [] d = 2 -> "2" [] d = 3 -> "3"
    [] d = 4 -> "4" [] d = 5 -> "5" [] d = 6 -> "6" [] d = 7 -> "7"
    [] d = 8 -> "8" [] d = 9 -> "9"

RECURSIVE FormatNat(_)
FormatNat(n) ==
  IF n < 10 THEN <<DigitChar(n)>>
  ELSE FormatNat(n \div 10) \o <<DigitChar(n % 10)>>

\* What %d prints for n.
FormatInt(n) ==
  IF n < 0 THEN <<"-">> \o FormatNat(-n) ELSE FormatNat(n)

\* The C string snprintf(buf, size, ...) leaves in buf when the formatted
\* text is text: at most size - 1 characters of it.
snprintf(size, text) ==
  IF Len(text) <= size - 1 THEN text ELSE SubSeq(text, 1, size - 1)

\* Lines 104-105: format the read command and send it.
Lines104_105 ==
  /\ pc = "L104"
  /\ Enter(snprintf(CmdSize, FMT_HTTPREAD \o FormatInt(len)), UART_BUF_SIZE)
  /\ UNCHANGED <<pc, resp, len, ret, rd_len, rx, tx, arrived, sent, oob>>

\* What the modem may send while the sequence runs.
Replies ==
  {R_OK, R_ACTION_MAX, R_ACTION_404, R_ACTION_NEG, R_LONG}

\* resp is not initialised (line 83): it holds what the stack held, here
\* nothing or the text of an old reply.
UninitBuffers ==
  {[i \in 1..UART_BUF_SIZE |-> NUL],
   [i \in 1..UART_BUF_SIZE |->
      IF i <= Len(R_ACTION_4096) THEN R_ACTION_4096[i] ELSE NUL]}

Init ==
  /\ pc = "L86"
  /\ at = "idle"
  /\ cmd = <<>>
  /\ buf_size = UART_BUF_SIZE
  /\ resp \in UninitBuffers
  /\ len = 0
  /\ ret = "none"
  /\ rd_len = 0
  /\ rx = <<>>
  /\ tx = <<>>
  /\ ops = <<>>
  /\ stale = <<>>
  /\ arrived = <<>>
  /\ sent = 0
  /\ oob = {}
  /\ calls = <<>>

Program ==
  \/ Call
  \/ Lines101_102
  \/ Lines104_105
  \/ send_at

Next ==
  \/ Program
  \/ ModemSends(Replies)

Spec ==
  Init /\ [][Next]_vars

\* The sequence with a modem that sends only the two +HTTPACTION replies
\* that decide the branch of line 102.
LiveReplies ==
  {R_ACTION_MAX, R_ACTION_404}

NextLive ==
  \/ Program
  \/ ModemSends(LiveReplies)

\* Line 101-102 is executed: the step Lines101_102 takes, whatever value the
\* parser returns. In the behaviours of NextLive it is enabled exactly when
\* Lines101_102 is, and a step of it is a step of Lines101_102.
ParseScheduled ==
  /\ pc = "L101"
  /\ at = "idle"
  /\ pc' \in {"L104", "L109"}
  /\ len' \in INT_MIN..INT_MAX
  /\ UNCHANGED <<at, cmd, buf_size, resp, ret, rd_len, rx, tx, ops, stale,
                 arrived, sent, oob, calls>>

\* Every statement of the single thread is eventually executed: each
\* uart_read_bytes call returns and the task keeps running.
LiveSpec ==
  /\ Init /\ [][NextLive]_vars
  /\ WF_vars(Call \/ Lines104_105 \/ send_at)
  /\ WF_vars(ParseScheduled)

----------------------------------------------------------------------------
(* send_at on its own: calls with small buffers of every capacity.         *)

\* The largest buffer capacity and the number of calls made.
MaxCap ==
  3

MaxCalls ==
  2

\* "AT"
CMD_AT ==
  <<"A", "T">>

HarnessCmds ==
  {CMD_AT, CMD_CGATT}

HarnessReplies ==
  {R_OK, R_ERROR, <<"A", NUL, "B">>}

HarnessCall ==
  /\ pc = "harness"
  /\ Len(calls) < MaxCalls
  /\ \E c \in HarnessCmds, size \in 1..MaxCap, fill \in {NUL, "?"} :
       /\ Enter(c, size)
       /\ resp' = [i \in 1..size |-> fill]
  /\ UNCHANGED <<pc, len, ret, rd_len, rx, tx, arrived, sent, oob>>

InitSendAt ==
  /\ pc = "harness"
  /\ at = "idle"
  /\ cmd = <<>>
  /\ buf_size = 1
  /\ resp = <<NUL>>
  /\ len = 0
  /\ ret = "none"
  /\ rd_len = 0
  /\ rx = <<>>
  /\ tx = <<>>
  /\ ops = <<>>
  /\ stale = <<>>
  /\ arrived = <<>>
  /\ sent = 0
  /\ oob = {}
  /\ calls = <<>>

NextSendAt ==
  \/ HarnessCall
  \/ send_at
  \/ ModemSends(HarnessReplies)

SpecSendAt ==
  InitSendAt /\ [][NextSendAt]_vars

----------------------------------------------------------------------------
(* The parser on its own: parse_http_length applied to bounded strings.    *)

\* The longest free-form text placed after the marker position.
MaxTail ==
  4

TailAlphabet ==
  {",", "7", " ", "-", "x"}

Tails ==
  UNION {[1..k -> TailAlphabet] : k \in 0..MaxTail}

Prefixes ==
  {<<>>, <<"7", ",">>, <<"+">>}

\* The marker, the marker without its colon, and no marker at all.
Middles ==
  {MARKER, SubSeq(MARKER, 1, Len(MARKER) - 1), <<>>}

\* +HTTPACTION: 0,200,4294967297   (a length that does not fit an int)
R_ACTION_HUGE ==
  SubSeq(R_ACTION_4096, 1, 19) \o <<"4","2","9","4","9","6","7","2","9","7">>

\* +HTTPACTION: 0,200, 42   (white space before the length)
R_ACTION_SPACE ==
  SubSeq(R_ACTION_4096, 1, 19) \o <<" ", "4", "2">>

Examples ==
  {R_OK, R_ERROR, R_ACTION_4096, R_ACTION_404, R_ACTION_MAX, R_ACTION_NEG,
   R_ACTION_SHORT, R_LONG, R_ACTION_HUGE, R_ACTION_SPACE,
   R_ACTION_404 \o CRLF \o R_ACTION_4096}

ParseInputs ==
  {p \o m \o t : p \in Prefixes, m \in Middles, t \in Tails} \cup Examples

InitParse ==
  /\ pc = "L101"
  /\ at = "idle"
  /\ cmd = <<>>
  /\ resp \in {str \o <<NUL>> : str \in ParseInputs}
  /\ buf_size = Len(resp)
  /\ len = 0
  /\ ret = "none"
  /\ rd_len = 0
  /\ rx = <<>>
  /\ tx = <<>>
  /\ ops = <<>>
  /\ stale = <<>>
  /\ arrived = <<>>
  /\ sent = 0
  /\ oob = {}
  /\ calls = <<>>

NextParse ==
  Lines101_102

SpecParse ==
  InitParse /\ [][NextParse]_vars

----------------------------------------------------------------------------
(* Properties of parse_http_length, stated on the text of the string.      *)

Parsed ==
  pc \in {"L104", "L109"}

MarkerAt(str, i) ==
  /\ i + Len(MARKER) - 1 <= Len(str)
  /\ SubSeq(str, i, i + Len(MARKER) - 1) = MARKER

FirstMarkerAt(str, i) ==
  /\ MarkerAt(str, i)
  /\ \A j \in 1..(i - 1) : ~MarkerAt(str, j)

HasMarker(str) ==
  \E i \in 1..Len(str) : MarkerAt(str, i)

CommasFrom(str, i) ==
  {j \in i..Len(str) : str[j] = ","}

\* The decimal value of a string of digits.
RECURSIVE DecVal(_)
DecVal(d) ==
  IF d = <<>> THEN 0
  ELSE 10 * DecVal(SubSeq(d, 1, Len(d) - 1)) + DigitVal(d[Len(d)])

IsDigits(d) ==
  /\ Len(d) >= 1
  /\ \A k \in 1..Len(d) : isdigit(d[k])

\* The digit string d denotes a value of at most 2^31 - 1.
FitsInt(d) ==
  \/ Len(d) <= 9
  \/ /\ Len(d) = 10
     /\ \/ DecVal(SubSeq(d, 1, 9)) < 214748364
        \/ DecVal(SubSeq(d, 1, 9)) = 214748364 /\ DigitVal(d[10]) <= 7

\* c is the first comma of str at or after position p.
FirstCommaFrom(str, p, c) ==
  /\ c >= p /\ c <= Len(str)
  /\ str[c] = ","
  /\ \A j \in p..(c - 1) : str[j] # ","

\* str[a..e] is a decimal integer of at most 2^31 - 1 that is followed by
\* nothing or by text that starts with a non-digit.
IntegerAt(str, a, e) ==
  /\ IsDigits(SubSeq(str, a, e))
  /\ FitsInt(SubSeq(str, a, e))
  /\ e = Len(str) \/ ~isdigit(str[e + 1])

\* C1: when the string holds the marker followed by two comma-delimited
\* fields and then a decimal integer N in 0..2^31-1, whatever precedes the
\* (first) marker and whatever non-digit text follows N, the parser returns N.
C1_ReturnsLength ==
  Parsed =>
    LET str == CString(resp) IN
    \A i \in 1..Len(str) : FirstMarkerAt(str, i) =>
      \A c1 \in 1..Len(str) : FirstCommaFrom(str, i + Len(MARKER), c1) =>
        \A c2 \in 1..Len(str) : FirstCommaFrom(str, c1 + 1, c2) =>
          \A e \in (c2 + 1)..Len(str) : IntegerAt(str, c2 + 1, e) =>
            len = DecVal(SubSeq(str, c2 + 1, e))

\* A parsed string with text before the marker, a length and text after it.
C1_Witness ==
  /\ Parsed
  /\ len > 0
  /\ LET str == CString(resp) IN
     \E i \in 2..Len(str) : FirstMarkerAt(str, i) /\
       \E c1 \in 1..Len(str) : FirstCommaFrom(str, i + Len(MARKER), c1) /\
         \E c2 \in 1..Len(str) : FirstCommaFrom(str, c1 + 1, c2) /\
           \E e \in (c2 + 1)..(Len(str) - 1) :
             /\ IntegerAt(str, c2 + 1, e)
             /\ len = DecVal(SubSeq(str, c2 + 1, e))

\* The text begins with a decimal integer: a digit, or a sign and a digit.
BeginsWithInteger(t) ==
  /\ Len(t) >= 1
  /\ \/ isdigit(t[1])
     \/ t[1] \in {"+", "-"} /\ Len(t) >= 2 /\ isdigit(t[2])

\* The text without its leading white space.
RECURSIVE TrimLeft(_)
TrimLeft(t) ==
  IF t # <<>> /\ isspace(t[1]) THEN TrimLeft(Tail(t)) ELSE t

\* The text of str after the second comma that follows its first marker
\* (str has both).
AfterSecondComma(str) ==
  LET i  == CHOOSE k \in 1..Len(str) : FirstMarkerAt(str, k)
      c1 == Min(CommasFrom(str, i))
      c2 == Min(CommasFrom(str, c1 + 1))
  IN  SubSeq(str, c2 + 1, Len(str))

FewerThanTwoCommas(str) ==
  \E i \in 1..Len(str) :
    FirstMarkerAt(str, i) /\ Cardinality(CommasFrom(str, i)) < 2

\* C2 as stated: without the marker, with fewer than two commas after the
\* first marker, or with text after the second comma that does not begin
\* with a decimal integer, the parser returns 0.
C2_Original ==
  Parsed =>
    LET str == CString(resp) IN
    (\/ ~HasMarker(str)
     \/ FewerThanTwoCommas(str)
     \/ ~BeginsWithInteger(AfterSecondComma(str))) => len = 0

\* C2, amended: without the marker, with fewer than two commas after the
\* first marker, or with text after the second comma that, once its leading
\* white space is skipped, does not begin with a decimal integer, the parser
\* returns 0.
C2_ReturnsZero ==
  Parsed =>
    LET str == CString(resp) IN
    (\/ ~HasMarker(str)
     \/ FewerThanTwoCommas(str)
     \/ ~BeginsWithInteger(TrimLeft(AfterSecondComma(str)))) => len = 0

\* A parsed string with the marker and two commas whose remainder is not a
\* number, one with too few commas and one without the marker.
C2_Witness ==
  /\ Parsed
  /\ len = 0
  /\ LET str == CString(resp) IN
     /\ HasMarker(str)
     /\ ~FewerThanTwoCommas(str)
     /\ AfterSecondComma(str) # <<>>
     /\ ~BeginsWithInteger(TrimLeft(AfterSecondComma(str)))
----------------------------------------------------------------------------
(* Properties of send_at.                                                  *)

Returned ==
  at = "idle" /\ ret # "none"

\* C3: send_at returns ESP_FAIL exactly when uart_read_bytes returned a
\* negative count; for every count >= 0 it returns ESP_OK, whatever arrived.
C3_FailIffReadError ==
  Returned =>
    /\ ret \in {"ESP_OK", "ESP_FAIL"}
    /\ ret = "ESP_FAIL" <=> rd_len < 0
    /\ rd_len >= 0 => ret = "ESP_OK"

\* The modem answered ERROR, the reply was cut at capacity - 1 bytes and the
\* call reported success.
C3_Witness ==
  /\ Returned
  /\ ret = "ESP_OK"
  /\ arrived = R_ERROR
  /\ rd_len = buf_size - 1
  /\ rd_len < Len(arrived)

\* A call that received nothing before the timeout and reported success.
C3_WitnessEmpty ==
  Returned /\ ret = "ESP_OK" /\ rd_len = 0 /\ buf_size > 1

\* C4: after a send_at call with capacity C >= 1 that returned ESP_OK the
\* buffer holds the len received bytes, 0 <= len <= C - 1, and a NUL at
\* index len; no index >= C is ever written.
C4_BufferTerminated ==
  /\ oob = {}
  /\ Len(resp) = buf_size
  /\ (Returned /\ ret = "ESP_OK") =>
       /\ 0 <= rd_len /\ rd_len <= buf_size - 1
       /\ resp[rd_len + 1] = NUL
       /\ SubSeq(resp, 1, rd_len) = SubSeq(arrived, 1, rd_len)

\* The modem sent more than C - 1 bytes and the call filled the buffer.
C4_Witness ==
  /\ Returned
  /\ ret = "ESP_OK"
  /\ buf_size >= 2
  /\ Len(arrived) > buf_size - 1
  /\ rd_len = buf_size - 1
  /\ resp[buf_size] = NUL

\* C5: a send_at call flushes, writes the command, writes "\r\n" and then
\* reads, in this order: once the flush is done the pending input is what
\* arrived after it, the read starts after both writes, and the bytes
\* returned are bytes that arrived after the flush.
C5_FlushWriteRead ==
  /\ at \in {"write_cmd", "write_crlf", "read"} => rx = arrived
  /\ at = "read" =>
       /\ ops = <<"flush", "write_cmd", "write_crlf">>
       /\ Len(tx) >= 2
       /\ tx[Len(tx) - 1] = cmd
       /\ tx[Len(tx)] = CRLF
  /\ Returned => ops = <<"flush", "write_cmd", "write_crlf", "read">>
  /\ (Returned /\ ret = "ESP_OK") =>
       SubSeq(resp, 1, rd_len) = SubSeq(arrived, 1, rd_len)

\* Input was pending when the call started, and the call returned other
\* bytes.
C5_Witness ==
  /\ Returned
  /\ ret = "ESP_OK"
  /\ stale # <<>>
  /\ rd_len > 0
  /\ resp[1] # stale[1]

----------------------------------------------------------------------------
(* Properties of sim_http_get_sample.                                      *)

IsPrefix(a, b) ==
  Len(a) <= Len(b) /\ a = SubSeq(b, 1, Len(a))

IsHttpRead(c) ==
  IsPrefix(FMT_HTTPREAD, c)

\* The positions of the AT+HTTPREAD commands among the calls.
ReadCalls ==
  {k \in 1..Len(calls) : IsHttpRead(calls[k])}

NotHttpRead(c) ==
  ~IsHttpRead(c)

\* The order of the commands, as C6 lists them.
ExpectedOrder ==
  <<CMD_CGATT, CMD_CGDCONT, CMD_CGAUTH, CMD_CGACT, CMD_CGPADDR, CMD_HTTPTERM,
    CMD_HTTPINIT, CMD_HTTPSSL1, CMD_HTTPPARA_URL, CMD_HTTPPARA_READMODE,
    CMD_HTTPACTION, CMD_HTTPTERM, CMD_HTTPSSL0>>

\* C6: the commands are issued in one fixed order, none skipped, repeated
\* or reordered, whatever earlier calls returned; only AT+HTTPREAD, in the
\* twelfth place, may be present or not. Each command issued is written to
\* the channel followed by "\r\n".
C6_FixedOrder ==
  /\ IsPrefix(SelectSeq(calls, NotHttpRead), ExpectedOrder)
  /\ ReadCalls \subseteq {12}
  /\ pc = "done" => SelectSeq(calls, NotHttpRead) = ExpectedOrder
  /\ at = "idle" =>
       /\ Len(tx) = 2 * Len(calls)
       /\ \A k \in 1..Len(calls) : tx[2 * k - 1] = calls[k] /\ tx[2 * k] = CRLF

\* The last command is being sent although the call before it failed.
C6_Witness ==
  /\ pc = "L110"
  /\ at = "read"
  /\ ret = "ESP_FAIL"
  /\ Len(calls) = 14

\* C7: AT+HTTPREAD is issued exactly when the parsed length is greater than
\* zero, at most once, after AT+HTTPACTION=0 and before the teardown.
C7_ReadIffPositive ==
  /\ pc \in {"L109", "L110", "done"} => (ReadCalls # {} <=> len > 0)
  /\ pc = "L104" => len > 0
  /\ \A k \in ReadCalls :
       /\ k = 12
       /\ calls[k - 1] = CMD_HTTPACTION
       /\ pc \in {"L104", "L109", "L110", "done"}
       /\ \A j \in 1..(k - 1) : calls[j] # CMD_HTTPSSL0

\* A run that parsed a negative length and finished without AT+HTTPREAD.
C7_Witness ==
  /\ pc = "done"
  /\ len < 0
  /\ ReadCalls = {}

\* A run that parsed a positive length and issued AT+HTTPREAD.
C7_WitnessRead ==
  /\ pc = "done"
  /\ len > 0
  /\ ReadCalls = {12}

\* The bytes send_at received for the last command (none when the read
\* failed), as the C string the caller would see.
LastReply ==
  IF rd_len >= 0 THEN SubSeq(arrived, 1, rd_len) ELSE <<>>

\* C8: when parse_http_length is invoked the buffer holds exactly the
\* NUL-terminated bytes received in reply to AT+HTTPACTION=0, and the parsed
\* length depends on that reply only, also when a send_at call failed.
C8_ParsesOwnReply ==
  /\ (pc = "L101" /\ at = "idle") =>
       /\ rd_len >= 0
       /\ SubSeq(resp, 1, rd_len) = SubSeq(arrived, 1, rd_len)
       /\ resp[rd_len + 1] = NUL
  /\ (pc \in {"L104", "L109"} /\ at = "idle" /\ Len(calls) = 11) =>
       len \in parse_http_length(LastReply \o <<NUL>>)

\* C9 as stated: the sequence ends after exactly 12 or 13 send_at calls.
C9_Original ==
  pc = "done" => Len(calls) \in {12, 13}

\* C9, amended: every execution ends, after exactly 13 or 14 send_at calls,
\* the last two being AT+HTTPTERM and AT+HTTPSSL=0, whatever earlier calls
\* returned.
C9_TearsDown ==
  /\ <>(pc = "done")
  /\ [](pc = "done" =>
          /\ at = "idle"
          /\ Len(calls) \in {13, 14}
          /\ calls[Len(calls) - 1] = CMD_HTTPTERM
          /\ calls[Len(calls)] = CMD_HTTPSSL0
          /\ Len(calls) = 14 <=> ReadCalls # {})

\* A finished run with the follow-up read whose last call failed.
C9_Witness ==
  /\ pc = "done"
  /\ Len(calls) = 14
  /\ ret = "ESP_FAIL"

\* C10: the AT+HTTPREAD command is "AT+HTTPREAD=0," followed by the decimal
\* digits of the parsed length, at most 24 characters, which fit the 32-byte
\* command buffer: the requested length is the parsed length.
C10_ReadCommand ==
  \A k \in ReadCalls :
    LET c == calls[k]
        d == SubSeq(c, Len(FMT_HTTPREAD) + 1, Len(c))
    IN  /\ c = FMT_HTTPREAD \o d
        /\ IsDigits(d)
        /\ d[1] # "0"
        /\ FitsInt(d)
        /\ DecVal(d) = len
        /\ Len(c) <= 24
        /\ Len(c) + 1 <= 32
        /\ at = "idle" => tx[2 * k - 1] = c

\* The read of the largest length, 2147483647, was issued and written.
C10_Witness ==
  /\ ReadCalls = {12}
  /\ at = "idle"
  /\ len = INT_MAX
  /\ Len(calls[12]) = 24
  /\ tx[23] = FMT_HTTPREAD \o FormatNat(INT_MAX)
====
